---- MODULE Spec2Model ----
(***************************************************************************)
(* Verification model of the impulse/cyclone particle core:                *)
(*   src/src/vector.rs    Vector<T, LEN> and Vector3                       *)
(*   src/src/particle.rs  Particle::add_force, Particle::integrate         *)
(*                                                                         *)
(* Real (src/src/lib.rs:7) is an IEEE-754 binary floating-point type.  It  *)
(* is modelled by a binary floating-point format of the same shape with a  *)
(* small significand: a Real is the integer number of units 2^-FracBits it *)
(* holds, it has at most MantBits significant bits, and every arithmetic   *)
(* result is rounded to the nearest such number, ties to even.  The range  *)
(* is the finite one: infinities and NaN are not modelled.                 *)
(***************************************************************************)
EXTENDS Integers, Sequences, FiniteSets, TLC

\* ------------------------------------------------------------------ bounds
\* Significant bits of a Real.
MantBits == 6
\* A Real is a multiple of 2^-FracBits (the smallest positive Real).
FracBits == 4
\* Number of add_force / integrate calls explored on one particle.
MaxSteps == 3
\* Number of integrate calls explored on a list of particles.
MaxPairSteps == 3
\* Number of particles in the list.
NumParticles == 2
\* Number of frames of the ballistics demo explored.
MaxTicks == 3

\* ---------------------------------------------------------------- Real
RECURSIVE Pow2(_)
Pow2(k) == IF k = 0 THEN 1 ELSE 2 * Pow2(k - 1)

RECURSIVE IPow(_, _)
IPow(b, k) == IF k = 0 THEN 1 ELSE b * IPow(b, k - 1)

\* The Real 1.0, in units.
Unit == Pow2(FracBits)

Abs(x) == IF x < 0 THEN -x ELSE x

\* The Real n / d, a multiple of 2^-FracBits.
Frac(n, d) == (n * Unit) \div d

\* Exponent of the rounded result of a / den (a >= 0, den > 0): the least e
\* for which the quotient fits the significand.
RECURSIVE Exponent(_, _, _)
Exponent(a, den, e) ==
    IF a \div (den * Pow2(e)) < Pow2(MantBits) THEN e ELSE Exponent(a, den, e + 1)

\* Round the rational num / den (in units, den > 0) to the nearest Real,
\* ties to even.
RoundRat(num, den) ==
    LET a  == Abs(num)
        e  == Exponent(a, den, 0)
        D  == den * Pow2(e)
        m0 == a \div D
        r  == a % D
        m  == IF 2 * r > D \/ (2 * r = D /\ m0 % 2 = 1) THEN m0 + 1 ELSE m0
        v  == m * Pow2(e)
    IN  IF num < 0 THEN -v ELSE v

\* A number of units is a Real when rounding leaves it alone.
IsReal(n) == RoundRat(n, 1) = n

\* f64 + f64, f64 - f64, f64 * f64
Add(a, b) == RoundRat(a + b, 1)
Sub(a, b) == RoundRat(a - b, 1)
Mul(a, b) == RoundRat(a * b, Unit)

\* f64::recip, called on nonzero values only.
Recip(a) == IF a < 0 THEN -RoundRat(Unit * Unit, -a) ELSE RoundRat(Unit * Unit, a)

RECURSIVE Isqrt(_)
Isqrt(X) ==
    IF X < 2 THEN X
    ELSE LET s == 2 * Isqrt(X \div 4)
         IN  IF (s + 1) * (s + 1) <= X THEN s + 1 ELSE s

RECURSIVE SqrtExponent(_, _)
SqrtExponent(X, e) ==
    IF Isqrt(X \div IPow(4, e)) < Pow2(MantBits) THEN e ELSE SqrtExponent(X, e + 1)

\* f64::sqrt of a >= 0, correctly rounded.
Sqrt(a) ==
    LET X  == a * Unit
        e  == SqrtExponent(X, 0)
        Q  == IPow(4, e)
        m0 == Isqrt(X \div Q)
        h  == Q * (4 * m0 * m0 + 4 * m0 + 1)
        m  == IF 4 * X > h \/ (4 * X = h /\ m0 % 2 = 1) THEN m0 + 1 ELSE m0
    IN  m * Pow2(e)

\* f64::powi(2)
Powi2(a) == Mul(a, a)

\* f64::powf(b, d) for b > 0 and an integral exponent d (a Real, in units).
Powf(b, d) ==
    LET k == Abs(d) \div Unit
    IN  IF d = 0 THEN Unit
        ELSE IF d > 0 THEN RoundRat(IPow(b, k), IPow(Unit, k - 1))
        ELSE RoundRat(IPow(Unit, k + 1), IPow(b, k))

\* -------------------------------------------------------------- Vector
\* Vector<Real, 3>: the sequence of its elements.
LEN == 3

\* Vector::default / Vector::zero
zero == [i \in 1..LEN |-> 0]

\* Vector3::new
new(vx, vy, vz) == <<vx, vy, vz>>

\* impl Add for Vector: a copy of self whose i-th element is self[i] + rhs[i]
VAddSwapped(a, b) == [i \in DOMAIN a |-> Add(a[i], b[(i % Len(b)) + 1])]
VAdd(a, b) == [i \in DOMAIN a |-> Add(a[i], b[i])]

\* impl AddAssign for Vector: the value self holds afterwards
VAddAssign(a, b) == [i \in DOMAIN a |-> Add(a[i], b[i])]

\* impl Sub for Vector
VSub(a, b) == [i \in DOMAIN a |-> Sub(a[i], b[i])]

\* impl Mul<T> for Vector
VMulScalar(a, s) == [i \in DOMAIN a |-> Mul(a[i], s)]

\* impl MulAssign<T> for Vector: the value self holds afterwards
VMulAssignScalar(a, s) == [i \in DOMAIN a |-> Mul(a[i], s)]

\* Vector::magnitude_squared: fold(0, |acc, e| acc + e.powi(2)) over the
\* first n elements
RECURSIVE SumSquares(_, _)
SumSquares(v, n) ==
    IF n = 0 THEN 0 ELSE Add(SumSquares(v, n - 1), Powi2(v[n]))

magnitude_squared(v) == SumSquares(v, Len(v))

\* Vector::magnitude
magnitude(v) == Sqrt(magnitude_squared(v))

\* Vector::normalize
normalizeToZero(v) ==
    LET length == magnitude(v)
    IN  IF length > 0 THEN VMulScalar(v, Recip(length)) ELSE zero
normalize(v) ==
    LET length == magnitude(v)
    IN  IF length > 0 THEN VMulScalar(v, Recip(length)) ELSE v

\* ------------------------------------------------------------ Particle
\* Particle::has_infinite_mass
has_infinite_mass(q) == q.inverse_mass = 0

\* Particle::add_force
add_forceOverwrite(q, force) == [q EXCEPT !.force_accumulator = force]
add_force(q, force) ==
    [q EXCEPT !.force_accumulator = VAddAssign(q.force_accumulator, force)]

\* Mutants of Particle::integrate (plausible slips of the same code).
\* the guard also clears the accumulator
integrateGuardClears(q, duration) ==
    IF q.inverse_mass <= 0 /\ duration > 0
    THEN [q EXCEPT !.force_accumulator = zero]
    ELSE LET velocity1 == VAddAssign(q.velocity, VMulScalar(q.acceleration, duration))
         IN  [q EXCEPT
                !.position = VAddAssign(q.position, VMulScalar(q.velocity, duration)),
                !.velocity = VMulAssignScalar(velocity1, Powf(q.damping, duration)),
                !.force_accumulator = zero]
\* the position is advanced with the velocity this call has just computed
integrateNewVelocity(q, duration) ==
    IF q.inverse_mass <= 0 /\ duration > 0
    THEN q
    ELSE LET velocity1 == VAddAssign(q.velocity, VMulScalar(q.acceleration, duration))
             velocity2 == VMulAssignScalar(velocity1, Powf(q.damping, duration))
         IN  [q EXCEPT
                !.position = VAddAssign(q.position, VMulScalar(velocity2, duration)),
                !.velocity = velocity2,
                !.force_accumulator = zero]
\* the accumulator is not cleared
integrateNoClear(q, duration) ==
    IF q.inverse_mass <= 0 /\ duration > 0
    THEN q
    ELSE LET velocity1 == VAddAssign(q.velocity, VMulScalar(q.acceleration, duration))
         IN  [q EXCEPT
                !.position = VAddAssign(q.position, VMulScalar(q.velocity, duration)),
                !.velocity = VMulAssignScalar(velocity1, Powf(q.damping, duration))]
\* the guard does not look at the duration
integrateGuardAnyDuration(q, duration) ==
    IF q.inverse_mass <= 0
    THEN q
    ELSE LET velocity1 == VAddAssign(q.velocity, VMulScalar(q.acceleration, duration))
         IN  [q EXCEPT
                !.position = VAddAssign(q.position, VMulScalar(q.velocity, duration)),
                !.velocity = VMulAssignScalar(velocity1, Powf(q.damping, duration)),
                !.force_accumulator = zero]
\* the accumulated force is turned into acceleration
integrateUsesForce(q, duration) ==
    IF q.inverse_mass <= 0 /\ duration > 0
    THEN q
    ELSE LET resulting == VAdd(q.acceleration,
                               VMulScalar(q.force_accumulator, q.inverse_mass))
             velocity1 == VAddAssign(q.velocity, VMulScalar(resulting, duration))
         IN  [q EXCEPT
                !.position = VAddAssign(q.position, VMulScalar(q.velocity, duration)),
                !.velocity = VMulAssignScalar(velocity1, Powf(q.damping, duration)),
                !.force_accumulator = zero]
\* the drag is linear in the duration
integrateLinearDrag(q, duration) ==
    IF q.inverse_mass <= 0 /\ duration > 0
    THEN q
    ELSE LET velocity1 == VAddAssign(q.velocity, VMulScalar(q.acceleration, duration))
         IN  [q EXCEPT
                !.position = VAddAssign(q.position, VMulScalar(q.velocity, duration)),
                !.velocity = VMulAssignScalar(velocity1, Mul(q.damping, duration)),
                !.force_accumulator = zero]
\* the velocity is not updated
integrateNoVelocityUpdate(q, duration) ==
    IF q.inverse_mass <= 0 /\ duration > 0
    THEN q
    ELSE [q EXCEPT
            !.position = VAddAssign(q.position, VMulScalar(q.velocity, duration)),
            !.force_accumulator = zero]
\* the acceleration is cleared with the accumulated force
integrateClearsAcceleration(q, duration) ==
    IF q.inverse_mass <= 0 /\ duration > 0
    THEN q
    ELSE LET velocity1 == VAddAssign(q.velocity, VMulScalar(q.acceleration, duration))
         IN  [q EXCEPT
                !.position = VAddAssign(q.position, VMulScalar(q.velocity, duration)),
                !.velocity = VMulAssignScalar(velocity1, Powf(q.damping, duration)),
                !.acceleration = zero,
                !.force_accumulator = zero]

\* Particle::integrate
integrate(q, duration) ==
    IF q.inverse_mass <= 0 /\ duration > 0
    THEN q
    ELSE LET velocity1 == VAddAssign(q.velocity, VMulScalar(q.acceleration, duration))
         IN  [q EXCEPT
                !.position = VAddAssign(q.position, VMulScalar(q.velocity, duration)),
                !.velocity = VMulAssignScalar(velocity1, Powf(q.damping, duration)),
                !.force_accumulator = zero]

\* ------------------------------------------------------------- inputs
\* Values the caller constructs a Particle with (all fields are pub).
Positions == {zero, new(Unit, Frac(3, 2), 0)}
Velocities == {new(0, 0, 35 * Unit), new(3, -Frac(5, 2), 7 * Unit)}
Accelerations == {new(0, -Unit, 0), zero}
Dampings == {Unit, Frac(3, 4)}
InverseMasses == {-Frac(1, 2), 0, Frac(1, 2)}
Forces == {new(40 * Unit, 0, -Unit), new(1, 3 * Unit, 0)}
Durations == {-Unit, 0, 2 * Unit, 4 * Unit}

Particles ==
    [position : Positions, velocity : Velocities, acceleration : Accelerations,
     damping : Dampings, inverse_mass : InverseMasses,
     force_accumulator : {zero} \cup Forces]

\* --------------------------------------------------------------- state
VARIABLES
    p,        \* the particle
    twin,     \* a particle built like p but for its force_accumulator
    init0,    \* p as constructed
    prev,     \* p before the last call
    last,     \* the last call: [op, force, duration]
    base,     \* p.force_accumulator when the current run of add_force began
    pending,  \* the forces of the add_force calls since the last integrate
    steps,    \* calls made so far
    \* a list of particles, each integrated on its own
    world,    \* the particles
    world0,   \* the particles as constructed
    hists,    \* for each particle, the durations it was integrated with
    psteps,   \* integrate calls made so far
    \* vector arithmetic on two operands
    va, vb,   \* the operands
    va0, vb0, \* the operands as constructed
    vsum,     \* va + vb
    vdiff,    \* (va + vb) - vb
    vnorm,    \* va.normalize()
    vpc,      \* what has been computed
    \* one particle integrated over the same time in one step and in two
    sstart,   \* the particle as constructed
    sstep,    \* the duration of one of the two steps
    swhole,   \* the copy integrated once, with twice sstep
    ssplit,   \* the copy integrated twice, with sstep
    swholeDone, \* swhole has been integrated
    scount,   \* integrate calls made on ssplit
    \* the ballistics demo
    rounds,      \* GameState::rounds
    next_shot,   \* GameState::next_shot
    should_fire, \* GameState::should_fire
    now,         \* get_time()
    bpc,         \* what the main loop calls next
    ticks,       \* update_physics calls made so far
    tick0,       \* rounds and should_fire when the last update_physics began
    calls,       \* for each round, the integrate calls of the last update_physics
    activated    \* the rounds the last update_physics activated

particleVars == <<p, twin, init0, prev, last, base, pending, steps>>
pairVars == <<world, world0, hists, psteps>>
vecVars == <<va, vb, va0, vb0, vsum, vdiff, vnorm, vpc>>
splitVars == <<sstart, sstep, swhole, ssplit, swholeDone, scount>>

ballVars == <<rounds, next_shot, should_fire, now, bpc, ticks, tick0, calls, activated>>

vars == <<particleVars, pairVars, vecVars, splitVars, ballVars>>

NoCall == [op |-> "new", force |-> zero, duration |-> 0]

ParticleInit ==
    /\ p \in Particles
    /\ \E f \in ({zero} \cup Forces) \ {p.force_accumulator} :
           twin = [p EXCEPT !.force_accumulator = f]
    /\ init0 = p
    /\ prev = p
    /\ last = NoCall
    /\ base = p.force_accumulator
    /\ pending = <<>>
    /\ steps = 0

\* particle.add_force(&force)
AddForce(force) ==
    /\ steps < MaxSteps
    /\ p' = add_force(p, force)
    /\ prev' = p
    /\ last' = [op |-> "add_force", force |-> force, duration |-> 0]
    /\ pending' = Append(pending, force)
    /\ steps' = steps + 1
    /\ UNCHANGED <<twin, init0, base>>

\* particle.integrate(duration), the same duration on p and on twin
Integrate(duration) ==
    /\ steps < MaxSteps
    /\ p' = integrate(p, duration)
    /\ twin' = integrate(twin, duration)
    /\ prev' = p
    /\ last' = [op |-> "integrate", force |-> zero, duration |-> duration]
    /\ base' = p'.force_accumulator
    /\ pending' = <<>>
    /\ steps' = steps + 1
    /\ UNCHANGED init0

\* The parts of the state a specification does not use stay as they are here.
ParticleIdle ==
    /\ p = [position |-> zero, velocity |-> zero, acceleration |-> zero,
            damping |-> 0, inverse_mass |-> 0, force_accumulator |-> zero]
    /\ twin = p
    /\ init0 = p
    /\ prev = p
    /\ last = NoCall
    /\ base = zero
    /\ pending = <<>>
    /\ steps = 0

PairIdle ==
    /\ world = <<>>
    /\ world0 = <<>>
    /\ hists = <<>>
    /\ psteps = 0

VecIdle ==
    /\ va = zero
    /\ vb = zero
    /\ va0 = zero
    /\ vb0 = zero
    /\ vsum = zero
    /\ vdiff = zero
    /\ vnorm = zero
    /\ vpc = "idle"

SplitIdle ==
    /\ sstart = [position |-> zero, velocity |-> zero, acceleration |-> zero,
                 damping |-> 0, inverse_mass |-> 0, force_accumulator |-> zero]
    /\ sstep = 0
    /\ swhole = sstart
    /\ ssplit = sstart
    /\ swholeDone = FALSE
    /\ scount = 0

BallIdle ==
    /\ rounds = <<>>
    /\ next_shot = "Pistol"
    /\ should_fire = FALSE
    /\ now = 0
    /\ bpc = "idle"
    /\ ticks = 0
    /\ tick0 = [rounds |-> <<>>, should_fire |-> FALSE]
    /\ calls = <<>>
    /\ activated = {}

Init == ParticleInit /\ PairIdle /\ VecIdle /\ SplitIdle /\ BallIdle

Next ==
    /\ \/ \E force \in Forces : AddForce(force)
       \/ \E duration \in Durations : Integrate(duration)
    /\ UNCHANGED <<pairVars, vecVars, splitVars, ballVars>>

\* One particle under add_force and integrate calls.
Spec == Init /\ [][Next]_vars

\* ------------------------------------------------- a list of particles
PairParticles ==
    {[position |-> zero, velocity |-> new(0, 0, 35 * Unit),
      acceleration |-> new(0, -Unit, 0), damping |-> Frac(3, 4),
      inverse_mass |-> Frac(1, 2), force_accumulator |-> new(40 * Unit, 0, -Unit)],
     [position |-> new(Unit, Frac(3, 2), 0), velocity |-> new(3, -Frac(5, 2), 7 * Unit),
      acceleration |-> new(0, -Unit, 0), damping |-> Unit,
      inverse_mass |-> 0, force_accumulator |-> new(1, 3 * Unit, 0)]}
PairDurations == {-Unit, 0, 2 * Unit}

\* particle.integrate(dt) on element i of a list of particles
IntegrateInAll(w, i, duration) == [j \in DOMAIN w |-> integrate(w[j], duration)]
IntegrateIn(w, i, duration) == [w EXCEPT ![i] = integrate(w[i], duration)]

PairInit ==
    /\ world \in [1..NumParticles -> PairParticles]
    /\ world0 = world
    /\ hists = [i \in 1..NumParticles |-> <<>>]
    /\ psteps = 0

PairIntegrate(i, duration) ==
    /\ psteps < MaxPairSteps
    /\ world' = IntegrateIn(world, i, duration)
    /\ hists' = [hists EXCEPT ![i] = Append(@, duration)]
    /\ psteps' = psteps + 1
    /\ UNCHANGED world0

InitPair == PairInit /\ ParticleIdle /\ VecIdle /\ SplitIdle /\ BallIdle

NextPair ==
    /\ \E i \in 1..NumParticles, duration \in PairDurations : PairIntegrate(i, duration)
    /\ UNCHANGED <<particleVars, vecVars, splitVars, ballVars>>

\* Particles of a list integrated one at a time, in any order.
SpecPair == InitPair /\ [][NextPair]_vars

\* ---------------------------------------------------- vector arithmetic
Components == {0, 1, -3, 4 * Unit, -Frac(5, 2)}
Vectors == [1..LEN -> Components]

VecInit ==
    /\ va \in Vectors
    /\ vb \in Vectors
    /\ va0 = va
    /\ vb0 = vb
    /\ vsum = zero
    /\ vdiff = zero
    /\ vnorm = zero
    /\ vpc = "new"

\* let sum = a + b;  (Vector is Copy: the operands are passed by value)
VecAdd ==
    /\ vpc = "new"
    /\ vsum' = VAdd(va, vb)
    /\ vpc' = "added"
    /\ UNCHANGED <<va, vb, va0, vb0, vdiff, vnorm>>

\* let diff = sum - b;
VecSub ==
    /\ vpc = "added"
    /\ vdiff' = VSub(vsum, vb)
    /\ vpc' = "subtracted"
    /\ UNCHANGED <<va, vb, va0, vb0, vsum, vnorm>>

\* let unit = a.normalize();
VecNormalize ==
    /\ vpc = "new"
    /\ vnorm' = normalize(va)
    /\ vpc' = "normalized"
    /\ UNCHANGED <<va, vb, va0, vb0, vsum, vdiff>>

InitVec == VecInit /\ ParticleIdle /\ PairIdle /\ SplitIdle /\ BallIdle

NextVec ==
    /\ \/ VecAdd
       \/ VecSub
       \/ VecNormalize
    /\ UNCHANGED <<particleVars, pairVars, splitVars, ballVars>>

\* Vector operations on operands drawn from Vectors.
SpecVec == InitVec /\ [][NextVec]_vars

\* ------------------------------------------- one step against two steps
SplitDampings == {Unit, Frac(3, 4), Frac(1, 2)}
SplitSteps == {-Unit, Unit, 2 * Unit}

SplitParticles ==
    [position : Positions, velocity : Velocities, acceleration : Accelerations,
     damping : SplitDampings, inverse_mass : InverseMasses,
     force_accumulator : {zero}]

SplitInit ==
    /\ sstart \in SplitParticles
    /\ sstep \in SplitSteps
    /\ swhole = sstart
    /\ ssplit = sstart
    /\ swholeDone = FALSE
    /\ scount = 0

\* whole.integrate(2.0 * step)
SplitWhole ==
    /\ ~swholeDone
    /\ swhole' = integrate(swhole, Mul(2 * Unit, sstep))
    /\ swholeDone' = TRUE
    /\ UNCHANGED <<sstart, sstep, ssplit, scount>>

\* split.integrate(step), twice
SplitHalf ==
    /\ scount < 2
    /\ ssplit' = integrate(ssplit, sstep)
    /\ scount' = scount + 1
    /\ UNCHANGED <<sstart, sstep, swhole, swholeDone>>

InitSplit == SplitInit /\ ParticleIdle /\ PairIdle /\ VecIdle /\ BallIdle

NextSplit ==
    /\ \/ SplitWhole
       \/ SplitHalf
    /\ UNCHANGED <<particleVars, pairVars, vecVars, ballVars>>

\* A particle integrated over one time span in one step and in two steps.
SpecSplit == InitSplit /\ [][NextSplit]_vars

\* ------------------------------------------------- the ballistics demo
PARTICLE_TIMEOUT_SECS == 5
AMMO_COUNT == 10

\* A decimal literal n / d of the source, rounded to a Real.
Literal(n, d) == RoundRat(n * Unit, d)

\* shot_as_particle
shot_as_particle(shot, position) ==
    CASE shot = "Pistol" ->
           [inverse_mass |-> Recip(2 * Unit), velocity |-> new(0, 0, 35 * Unit),
            acceleration |-> new(0, -Unit, 0), damping |-> Literal(99, 100),
            position |-> position, force_accumulator |-> zero]
      [] shot = "Artillery" ->
           [inverse_mass |-> Recip(200 * Unit), velocity |-> new(0, 30 * Unit, 40 * Unit),
            acceleration |-> new(0, -20 * Unit, 0), damping |-> Literal(99, 100),
            position |-> position, force_accumulator |-> zero]
      [] shot = "Fireball" ->
           [inverse_mass |-> Recip(Unit), velocity |-> new(0, 0, 10 * Unit),
            acceleration |-> new(0, Literal(6, 10), 0), damping |-> Literal(9, 10),
            position |-> position, force_accumulator |-> zero]
      [] shot = "Laser" ->
           [inverse_mass |-> Recip(Literal(1, 10)), velocity |-> new(0, 0, 100 * Unit),
            acceleration |-> zero, damping |-> Literal(99, 100),
            position |-> position, force_accumulator |-> zero]
      [] shot = "Grenade" ->
           [inverse_mass |-> Recip(Literal(9, 10)), velocity |-> new(0, 15 * Unit, 10 * Unit),
            acceleration |-> new(0, -10 * Unit, 0), damping |-> Literal(99, 100),
            position |-> position, force_accumulator |-> zero]

\* to_vec3
to_vec3(v) == <<v[1], v[2], v[3]>>

\* The start_time of a round that has none.
None == <<>>

\* The end of one iteration of the loop of update_physics: a round that is
\* alive and out of bounds or expired dies.
retire(round, time) ==
    IF round.alive
    THEN LET out_of_bounds == \/ round.particle.position[2] < -5 * Unit
                              \/ round.particle.position[3] > 200 * Unit
             expired == IF round.start_time = None THEN TRUE
                        ELSE Sub(time, round.start_time[1]) > PARTICLE_TIMEOUT_SECS * Unit
         IN  IF out_of_bounds \/ expired
             THEN [round EXCEPT !.start_time = None, !.alive = FALSE]
             ELSE round
    ELSE round

\* The loop of update_physics from round i on; g is [rounds, should_fire,
\* calls, activated].
RECURSIVE update_rounds(_, _, _, _, _)
update_rounds(g, i, dt, time, shot) ==
    IF i > Len(g.rounds) THEN g
    ELSE LET round == g.rounds[i]
         IN  IF round.alive
             THEN LET particle == integrate(round.particle, dt)
                      moved == [round EXCEPT
                                  !.particle = particle,
                                  !.trajectory = Append(@, to_vec3(particle.position))]
                  IN  update_rounds(
                          [g EXCEPT !.rounds[i] = retire(moved, time),
                                    !.calls[i] = @ + 1],
                          i + 1, dt, time, shot)
             ELSE IF g.should_fire
             THEN LET spawn_pos == new(0, Frac(3, 2), 0)
                      particle == shot_as_particle(shot, spawn_pos)
                      fired == [round EXCEPT
                                  !.start_time = <<time>>,
                                  !.alive = TRUE,
                                  !.trajectory = <<to_vec3(spawn_pos)>>,
                                  !.particle = [particle EXCEPT !.velocity =
                                      new(0, particle.velocity[2], particle.velocity[3])]]
                  IN  [g EXCEPT !.rounds[i] = fired,
                                !.should_fire = FALSE,
                                !.activated = @ \cup {i}]
             ELSE update_rounds(g, i + 1, dt, time, shot)

\* Keys pressed in a frame and frame times.
ShotKeys == {"Pistol", "Laser"}
FrameTimes == {2 * Unit, 4 * Unit}

\* GameState::new
BallInit ==
    /\ rounds = [i \in 1..AMMO_COUNT |->
                   [particle |-> shot_as_particle("Pistol", zero),
                    start_time |-> None, alive |-> FALSE, trajectory |-> <<>>]]
    /\ next_shot = "Pistol"
    /\ should_fire = FALSE
    /\ now = 0
    /\ bpc = "handle_input"
    /\ ticks = 0
    /\ tick0 = [rounds |-> rounds, should_fire |-> FALSE]
    /\ calls = [i \in 1..AMMO_COUNT |-> 0]
    /\ activated = {}

\* handle_input: the number keys pick the next shot, space asks to fire
HandleInput(key, space) ==
    /\ bpc = "handle_input"
    /\ ticks < MaxTicks
    /\ next_shot' = IF key = "none" THEN next_shot ELSE key
    /\ should_fire' = IF space THEN TRUE ELSE should_fire
    /\ bpc' = "update_physics"
    /\ UNCHANGED <<rounds, now, ticks, tick0, calls, activated>>

\* update_physics, in a frame that took dt: get_frame_time() is dt and
\* get_time() is dt later than in the frame before
UpdatePhysics(dt) ==
    /\ bpc = "update_physics"
    /\ now' = Add(now, dt)
    /\ LET g == update_rounds([rounds |-> rounds, should_fire |-> should_fire,
                               calls |-> [i \in 1..Len(rounds) |-> 0],
                               activated |-> {}],
                              1, dt, now', next_shot)
       IN  /\ rounds' = g.rounds
           /\ should_fire' = g.should_fire
           /\ calls' = g.calls
           /\ activated' = g.activated
    /\ tick0' = [rounds |-> rounds, should_fire |-> should_fire]
    /\ ticks' = ticks + 1
    /\ bpc' = "handle_input"
    /\ UNCHANGED next_shot

InitBall == BallInit /\ ParticleIdle /\ PairIdle /\ VecIdle /\ SplitIdle

NextBall ==
    /\ \/ \E key \in ShotKeys \cup {"none"}, space \in BOOLEAN : HandleInput(key, space)
       \/ \E dt \in FrameTimes : UpdatePhysics(dt)
    /\ UNCHANGED <<particleVars, pairVars, vecVars, splitVars>>

\* The main loop of the ballistics demo.
SpecBall == InitBall /\ [][NextBall]_vars

\* ------------------------------------------------------------- claims
\* The guard of integrate: inverse_mass <= 0 and duration > 0.
GuardFired == last.op = "integrate" /\ prev.inverse_mass <= 0 /\ last.duration > 0
GuardPassed == last.op = "integrate" /\ (prev.inverse_mass > 0 \/ last.duration <= 0)

\* C1: integrate(duration) with inverse_mass <= 0 and duration > 0 changes
\* nothing: position, velocity and force_accumulator (with whatever add_force
\* put there) are as before the call, after every such call of a run.
C1_GuardChangesNothing ==
    GuardFired =>
        /\ p.position = prev.position
        /\ p.velocity = prev.velocity
        /\ p.force_accumulator = prev.force_accumulator
        /\ p = prev

\* A guarded integrate that follows an add_force, whose force is still there.
C1_Witness ==
    /\ GuardFired
    /\ steps >= 2
    /\ p.force_accumulator # zero
    /\ p.force_accumulator # init0.force_accumulator

\* The state of the reference test of integrate but for its damping.
IsReferenceCase(q) ==
    /\ q.inverse_mass = Frac(1, 2)
    /\ q.velocity = new(0, 0, 35 * Unit)
    /\ q.acceleration = new(0, -Unit, 0)
    /\ q.position = zero

\* C2: when the guard does not fire, integrate sets position to
\* old position + old velocity * duration and velocity to
\* (old velocity + acceleration * duration) * damping^duration; the reference
\* case integrated over 4 ends at position (0, 0, 140).
C2_EulerStep ==
    /\ GuardPassed =>
         /\ p.position =
              [i \in 1..LEN |-> Add(prev.position[i], Mul(prev.velocity[i], last.duration))]
         /\ p.velocity =
              [i \in 1..LEN |->
                 Mul(Add(prev.velocity[i], Mul(prev.acceleration[i], last.duration)),
                     Powf(prev.damping, last.duration))]
    /\ (last.op = "integrate" /\ IsReferenceCase(prev) /\ last.duration = 4 * Unit) =>
         p.position = new(0, 0, 140 * Unit)

\* The reference case after integrate(4), its velocity changed by the call.
C2_Witness ==
    /\ last.op = "integrate"
    /\ IsReferenceCase(prev)
    /\ last.duration = 4 * Unit
    /\ p.position = new(0, 0, 140 * Unit)
    /\ p.velocity # prev.velocity

\* C3: after an integrate whose guard does not fire, force_accumulator is the
\* zero vector, whatever add_force had accumulated.
C3_AccumulatorCleared == GuardPassed => p.force_accumulator = zero

\* An unguarded integrate of a particle that held an accumulated force.
C3_Witness ==
    /\ GuardPassed
    /\ Len(pending) = 0
    /\ prev.force_accumulator # zero
    /\ prev.force_accumulator # init0.force_accumulator
    /\ p.force_accumulator = zero

\* C4: integrate(0) leaves position and velocity unchanged and clears
\* force_accumulator, for every particle, inverse_mass == 0 included.
C4_ZeroDuration ==
    (last.op = "integrate" /\ last.duration = 0) =>
        /\ p.position = prev.position
        /\ p.velocity = prev.velocity
        /\ p.force_accumulator = zero

\* integrate(0) of an infinite-mass particle in motion that held a force.
C4_Witness ==
    /\ last.op = "integrate"
    /\ last.duration = 0
    /\ prev.inverse_mass = 0
    /\ prev.velocity # zero
    /\ prev.force_accumulator # zero
    /\ p.force_accumulator = zero

\* base + f1 + ... + fn, added in call order.
RECURSIVE SumForces(_, _)
SumForces(b, fs) ==
    IF fs = <<>> THEN b
    ELSE SumForces([i \in 1..LEN |-> Add(b[i], Head(fs)[i])], Tail(fs))

\* C5: after add_force(f1), ..., add_force(fn) with no integrate in between,
\* force_accumulator is its value before the sequence plus f1 + ... + fn,
\* elementwise, and an add_force leaves the other fields unchanged.
C5_AddForceAccumulates ==
    /\ p.force_accumulator = SumForces(base, pending)
    /\ last.op = "add_force" =>
         /\ p.position = prev.position
         /\ p.velocity = prev.velocity
         /\ p.acceleration = prev.acceleration
         /\ p.damping = prev.damping
         /\ p.inverse_mass = prev.inverse_mass

\* Two add_force calls in a row on a nonzero accumulator.
C5_Witness ==
    /\ last.op = "add_force"
    /\ Len(pending) >= 2
    /\ base # zero
    /\ p.force_accumulator # base
    /\ p.force_accumulator # prev.force_accumulator

\* C6: two particles that differ only in force_accumulator and are integrated
\* with the same durations have equal position and velocity after every step.
C6_ForceNeverMoves ==
    /\ p.position = twin.position
    /\ p.velocity = twin.velocity
    /\ p.acceleration = twin.acceleration
    /\ p.damping = twin.damping
    /\ p.inverse_mass = twin.inverse_mass

\* An unguarded integrate that moved a particle whose accumulator was not
\* the one of its twin.
C6_Witness ==
    /\ GuardPassed
    /\ prev.inverse_mass > 0
    /\ prev.force_accumulator # zero
    /\ steps = 1
    /\ twin.position = p.position
    /\ p.position # prev.position
    /\ p.velocity # prev.velocity

\* C7: a particle with inverse_mass == 0 never changes position or velocity,
\* under any add_force and integrate calls with any durations.
C7_InfiniteMassImmovable ==
    has_infinite_mass(init0) =>
        /\ p.position = init0.position
        /\ p.velocity = init0.velocity

\* The particle reached from q by integrating it with the durations ds alone.
RECURSIVE Alone(_, _)
Alone(q, ds) ==
    IF ds = <<>> THEN q ELSE Alone(integrate(q, Head(ds)), Tail(ds))

\* C8: integrating one particle neither reads nor writes another: after any
\* interleaving of the particles' integration steps, each particle is in the
\* state its own durations alone take it to from its own initial state, so
\* every order of the same steps ends in the same state.
C8_IndependentParticles ==
    \A i \in DOMAIN world : world[i] = Alone(world0[i], hists[i])

\* Both particles integrated, interleaved, and both moved.
C8_Witness ==
    /\ psteps = MaxPairSteps
    /\ Len(hists[1]) >= 1
    /\ Len(hists[2]) >= 1
    /\ hists[1] # hists[2]
    /\ world[1].position # world0[1].position
    /\ world[2].position # world0[2].position

\* Spacing of the Reals at x (one unit in the last place).
Ulp(x) == Pow2(Exponent(Abs(x), 1, 0))

\* C9 (as stated): for all vectors a and b, (a + b) - b == a.
C9_SubUndoesAdd == vpc = "subtracted" => vdiff = va

\* C9 (amended): + and - combine the i-th components and leave the operands
\* unmodified; ((a + b) - b)[i] == a[i] whenever a[i] + b[i] is computed
\* without rounding, and is within one unit in the last place of a[i] + b[i]
\* of a[i] otherwise.
C9_SubUndoesExactAdd ==
    /\ vpc \in {"added", "subtracted"} =>
         /\ \A i \in 1..LEN : vsum[i] = Add(va[i], vb[i])
         /\ va = va0
         /\ vb = vb0
    /\ vpc = "subtracted" =>
         /\ \A i \in 1..LEN : vdiff[i] = Sub(vsum[i], vb[i])
         /\ \A i \in 1..LEN : IsReal(va[i] + vb[i]) => vdiff[i] = va[i]
         /\ \A i \in 1..LEN : Abs(vdiff[i] - va[i]) <= Ulp(vsum[i])

\* A sum that was rounded in one component and exact in another.
C9_Witness ==
    /\ vpc = "subtracted"
    /\ \E i \in 1..LEN : ~IsReal(va[i] + vb[i]) /\ vdiff[i] # va[i]
    /\ \E i \in 1..LEN : IsReal(va[i] + vb[i]) /\ vb[i] # 0 /\ vdiff[i] = va[i]

\* C10: normalize() of a vector whose magnitude is exactly zero returns the
\* vector unchanged; the components are rescaled (by the reciprocal of the
\* magnitude, never of zero) only when the magnitude is greater than zero.
C10_NormalizeZero ==
    vpc = "normalized" =>
        /\ magnitude(va) = 0 => vnorm = va
        /\ va = zero => (magnitude(va) = 0 /\ vnorm = zero)
        /\ vnorm # va => magnitude(va) > 0
        /\ magnitude(va) > 0 =>
             vnorm = [i \in 1..LEN |-> Mul(va[i], Recip(magnitude(va)))]

\* The zero vector normalized.
C10_Witness ==
    /\ vpc = "normalized"
    /\ va = zero
    /\ magnitude(va) = 0
    /\ vnorm = zero

\* Both copies have been integrated over the whole time span.
SplitDone == swholeDone /\ scount = 2

\* b^d is a Real: Powf(b, d) is computed without rounding.
PowfExact(b, d) ==
    LET k == Abs(d) \div Unit
    IN  IF d = 0 THEN TRUE
        ELSE IF d > 0
        THEN /\ IPow(b, k) % IPow(Unit, k - 1) = 0
             /\ IsReal(IPow(b, k) \div IPow(Unit, k - 1))
        ELSE /\ IPow(Unit, k + 1) % IPow(b, k) = 0
             /\ IsReal(IPow(Unit, k + 1) \div IPow(b, k))

\* a * b is a Real: Mul(a, b) is computed without rounding.
MulExact(a, b) == (a * b) % Unit = 0 /\ IsReal((a * b) \div Unit)

\* Nothing is rounded in damping the velocity v by k over d twice and over
\* 2d once.
DampingExact(v, k, d) ==
    /\ PowfExact(k, d)
    /\ PowfExact(k, 2 * d)
    /\ \A i \in 1..LEN :
         /\ MulExact(v[i], Powf(k, d))
         /\ MulExact(Mul(v[i], Powf(k, d)), Powf(k, d))
         /\ MulExact(v[i], Powf(k, 2 * d))

\* The case of C11: a particle of finite mass and zero acceleration.
DampingCase == SplitDone /\ sstart.inverse_mass > 0 /\ sstart.acceleration = zero

\* C11 (as stated): with inverse_mass > 0 and zero acceleration, the velocity
\* after two integrate(d) calls equals the velocity after one integrate(2d).
C11_FrameRateIndependent == DampingCase => ssplit.velocity = swhole.velocity

\* C11 (amended): with inverse_mass > 0 and zero acceleration, one
\* integrate(2d) multiplies the velocity by damping^(2d) and two integrate(d)
\* multiply it twice by damping^d; the two velocities are equal whenever the
\* powers and products are computed without rounding, and equal only up to
\* that rounding otherwise.
C11_FrameRateIndependentExact ==
    DampingCase =>
        /\ swhole.velocity =
             [i \in 1..LEN |-> Mul(sstart.velocity[i], Powf(sstart.damping, 2 * sstep))]
        /\ ssplit.velocity =
             [i \in 1..LEN |->
                Mul(Mul(sstart.velocity[i], Powf(sstart.damping, sstep)),
                    Powf(sstart.damping, sstep))]
        /\ DampingExact(sstart.velocity, sstart.damping, sstep) =>
             ssplit.velocity = swhole.velocity

\* A velocity damped by a factor other than 1 with nothing rounded.
C11_Witness ==
    /\ DampingCase
    /\ sstart.damping # Unit
    /\ DampingExact(sstart.velocity, sstart.damping, sstep)
    /\ ssplit.velocity = swhole.velocity
    /\ ssplit.velocity # sstart.velocity

\* C12: integrating over d in two steps of d/2 does not in general give the
\* position and velocity of one step of d: for the reference case (finite
\* mass, velocity (0, 0, 35), acceleration (0, -1, 0)) and every step > 0
\* the two positions differ, and with damping < 1 so do the two velocities.
C12_NotPathIndependent ==
    (SplitDone /\ IsReferenceCase(sstart) /\ sstep > 0) =>
        /\ ssplit.position # swhole.position
        /\ sstart.damping < Unit => ssplit.velocity # swhole.velocity

\* The reference case integrated over 4 in one step and in two steps of 2.
C12_Witness ==
    /\ SplitDone
    /\ IsReferenceCase(sstart)
    /\ sstart.inverse_mass > 0
    /\ sstep = 2 * Unit
    /\ swhole.position = new(0, 0, 140 * Unit)
    /\ ssplit.position # swhole.position
    /\ ssplit.velocity # swhole.velocity

\* C13: under any add_force and integrate calls the fields acceleration,
\* damping and inverse_mass keep their initial values; so a particle created
\* with inverse_mass >= 0 has inverse_mass >= 0 in every reachable state.
C13_ConstantFields ==
    /\ p.acceleration = init0.acceleration
    /\ p.damping = init0.damping
    /\ p.inverse_mass = init0.inverse_mass
    /\ init0.inverse_mass >= 0 => p.inverse_mass >= 0

\* A particle that was given a force and then moved by integrate.
C13_Witness ==
    /\ steps = MaxSteps
    /\ GuardPassed
    /\ prev.force_accumulator # init0.force_accumulator
    /\ p.position # init0.position
    /\ p.velocity # init0.velocity
    /\ p.acceleration # zero
    /\ p.acceleration = init0.acceleration

\* C14: every update_physics calls integrate exactly once on every round
\* that was alive when it began, also when it activates a dead round for a
\* pending fire request; and a fire request activates at most one dead round
\* and then resets should_fire.
C14_IntegrateOncePerTick ==
    (ticks > 0 /\ bpc = "handle_input") =>
        /\ \A i \in 1..Len(rounds) : tick0.rounds[i].alive => calls[i] = 1
        /\ Cardinality(activated) <= 1
        /\ \A i \in activated : tick0.should_fire /\ ~tick0.rounds[i].alive
        /\ activated # {} => ~should_fire
====
